---- MODULE Spec2Model ----
(***************************************************************************)
(* Model of src/poller.py: the memoized change-detecting poller            *)
(* (RekordboxPoller.poll), the shared module-level poller instance, the    *)
(* two connection handlers (wait_for_hotkey, wait_for_interval), the F8    *)
(* hotkey listener feeding an asyncio queue, and the websockets server     *)
(* that starts one handler per accepted connection.                        *)
(***************************************************************************)
EXTENDS Integers, Sequences, FiniteSets

\* ------------------------------------------------------------------ bounds
MaxConns == 2
MaxRec == 2
MaxTime == 1
MaxSignals == 3

\* ------------------------------------------------------- program constants
\* functools.lru_cache(maxsize=100)
lru_maxsize == 100

Conns == 1..MaxConns

\* ------------------------------------------------------------ data values
\* Python None for an optional field of SongInfo.
NoneStr == "<None>"

\* poll() returning None is the empty tuple; a SongInfo is a 4-tuple
\* <<artist, title, album, artwork>>.
None == <<>>

SongInfo(artist, title, album, artwork) == <<artist, title, album, artwork>>

\* SongInfo(): every field takes its default, None.
SongInfoDefault == SongInfo(NoneStr, NoneStr, NoneStr, NoneStr)

\* SongInfo.model_dump_json(): None becomes the JSON literal null, a string
\* becomes a quoted JSON string.
model_dump_json(s) ==
  [i \in 1..4 |-> IF s[i] = NoneStr THEN "null" ELSE "\"" \o s[i] \o "\""]

\* ------------------------------------------------- the Rekordbox database
\* DjmdSongHistory row r joined with its DjmdContent (ContentID), and the
\* content's Artist / Album joins (None when the outer join finds nothing).
ContentID(r) == ((r - 1) % 3) + 1

Content(r) ==
  CASE ContentID(r) = 1 ->
         [Title |-> "Song A", Artist |-> "Artist A", Album |-> NoneStr,
          ImagePath |-> NoneStr]
    [] ContentID(r) = 2 ->
         [Title |-> "Song B", Artist |-> NoneStr, Album |-> "Album B",
          ImagePath |-> "/missing.png"]
    [] OTHER ->
         [Title |-> "Song C", Artist |-> "Artist C", Album |-> "Album C",
          ImagePath |-> "/PIONEER/Artwork/c.jpg"]

\* The share directory: the file a relative path resolves to, after
\* lstrip("/"); exists = is_file(), b64 = base64 of its bytes.
ShareFile(path) ==
  IF path = "/PIONEER/Artwork/c.jpg"
  THEN [exists |-> TRUE, suffix |-> ".jpg", b64 |-> "/9j/4AAQ"]
  ELSE [exists |-> FALSE, suffix |-> ".png", b64 |-> ""]

_load_image_as_base64_data_uri(relative_path) ==
  LET f == ShareFile(relative_path)
      mimetype == CASE f.suffix \in {".jpg", ".jpeg"} -> "image/jpeg"
                    [] f.suffix = ".png" -> "image/png"
                    [] OTHER -> "image/*"
  IN IF ~f.exists THEN NoneStr
     ELSE "data:" \o mimetype \o ";base64," \o f.b64

\* The SongInfo built from the last row of a non-empty history result.
SongInfoOf(r) ==
  LET content == Content(r)
      artwork_data_uri ==
        IF content.ImagePath # NoneStr
        THEN _load_image_as_base64_data_uri(content.ImagePath)
        ELSE NoneStr
  IN SongInfo(content.Artist, content.Title, content.Album, artwork_data_uri)

\* The history query: order by created_at desc, limit 1.  latest = 0 is a
\* store with no history rows; down = the query raises.
query(latest, down) ==
  [raised |-> down,
   rows |-> IF down \/ latest = 0 THEN <<>> ELSE <<latest>>]

\* --------------------------------------------------------------- lru_cache
\* The cache is a sequence of <<key, value>> pairs, least recently used
\* first.  The key is the _cache_key argument (self is the one module-level
\* poller).
cache_has(ch, key) == \E i \in 1..Len(ch) : ch[i][1] = key

cache_index(ch, key) == CHOOSE i \in 1..Len(ch) : ch[i][1] = key

cache_get(ch, key) == ch[cache_index(ch, key)][2]

cache_without(ch, i) == SubSeq(ch, 1, i - 1) \o SubSeq(ch, i + 1, Len(ch))

\* A hit moves the entry to the most recently used end.
cache_touch(ch, key) ==
  cache_without(ch, cache_index(ch, key)) \o <<ch[cache_index(ch, key)]>>

\* A miss stores the result, evicting the least recently used entry when
\* the cache is full.
cache_put(ch, key, val) ==
  LET full == Len(ch) >= lru_maxsize
  IN (IF full THEN Tail(ch) ELSE ch) \o <<<<key, val>>>>

\* ------------------------------------------------------ RekordboxPoller.poll
\* The body of poll: h is self._history (<<>> is None: line 106 is the only
\* assignment and line 100 keeps an empty list away from it), q the query's
\* outcome.  Gives the return value and the new self._history.
poll_body_error_is_none(h, q) ==
  IF q.raised THEN [ret |-> None, hist |-> h]
  ELSE IF q.rows # <<>>
       THEN IF h = q.rows
            THEN [ret |-> None, hist |-> h]
            ELSE [ret |-> SongInfoOf(q.rows[Len(q.rows)]), hist |-> q.rows]
       ELSE [ret |-> None, hist |-> h]

poll_body_forgets_on_error(h, q) ==
  IF q.raised THEN [ret |-> SongInfoDefault, hist |-> None]
  ELSE IF q.rows # <<>>
       THEN IF h = q.rows
            THEN [ret |-> None, hist |-> h]
            ELSE [ret |-> SongInfoOf(q.rows[Len(q.rows)]), hist |-> q.rows]
       ELSE [ret |-> None, hist |-> h]

poll_body_marks_without_returning(h, q) ==
  IF q.raised THEN [ret |-> SongInfoDefault, hist |-> h]
  ELSE IF q.rows # <<>>
       THEN [ret |-> None, hist |-> q.rows]
       ELSE [ret |-> None, hist |-> h]

poll_body(h, q) ==
  IF q.raised THEN [ret |-> SongInfoDefault, hist |-> h]
  ELSE IF q.rows # <<>>
       THEN IF h = q.rows
            THEN [ret |-> None, hist |-> h]
            ELSE [ret |-> SongInfoOf(q.rows[Len(q.rows)]), hist |-> q.rows]
       ELSE [ret |-> None, hist |-> h]

\* poll as callers see it, behind functools.lru_cache: a call whose key is
\* cached returns the cached value and does not run the body.
poll(h, ch, key, q) ==
  IF cache_has(ch, key)
  THEN [ret |-> cache_get(ch, key), hist |-> h, cache |-> cache_touch(ch, key)]
  ELSE LET b == poll_body(h, q)
       IN [ret |-> b.ret, hist |-> b.hist, cache |-> cache_put(ch, key, b.ret)]

\* _send_track_info sends only when poll returned a state.
sends_empty_never(st) == st # None /\ st # SongInfoDefault

should_send(st) == st # None

\* ------------------------------------------------------------------- state
VARIABLES
  hotkey_mode,   \* main's hotkey_mode argument
  latest,        \* the store's latest history row (0: no history rows)
  db_down,       \* the history query raises
  now,           \* the wall clock, in whole seconds (the cache key)
  _history,      \* poller._history
  cache,         \* poller.poll's lru_cache
  conn,          \* per connection: "none", "open", "closed_ok", "closed_err"
  pc,            \* per connection handler: "none", "get", "ready", "send",
                 \*   "sleep", "done"
  state,         \* per handler: _send_track_info's local `state` (None
                 \*   outside the call)
  pending,       \* per connection: messages given to websocket.send, not
                 \*   yet completed
  wire,          \* per connection: messages the subscriber has received
  key_queue,     \* the asyncio.Queue of hotkey events
  loop_ready,    \* callbacks scheduled by call_soon_threadsafe, not yet run
  f8_down,       \* keyboard.HotKey's _state holds F8
  presses,       \* number of hotkey activations so far
  releases,      \* number of F8 releases that completed a press
  ticks,         \* per connection: signals of the interval trigger so far
  served,        \* per connection: the signals its cycles consumed
  lost,          \* per connection: messages whose send raised
                 \*   ConnectionClosedOK
  ref_history,   \* self._history of the same calls made on the undecorated poll
  at_last_poll   \* the store's latest row at the previous poll call

vars == <<hotkey_mode, latest, db_down, now, _history, cache, conn, pc, state,
          pending, wire, key_queue, loop_ready, f8_down, presses, ticks,
          served, ref_history, at_last_poll, releases, lost>>

env_vars == <<latest, db_down, now>>
poller_vars == <<_history, cache, ref_history, at_last_poll>>
key_vars == <<key_queue, loop_ready, f8_down, presses>>

Init ==
  /\ hotkey_mode \in BOOLEAN
  /\ latest \in 0..MaxRec
  /\ db_down = FALSE
  /\ now = 0
  /\ _history = <<>>
  /\ cache = <<>>
  /\ conn = [c \in Conns |-> "none"]
  /\ pc = [c \in Conns |-> "none"]
  /\ state = [c \in Conns |-> None]
  /\ pending = [c \in Conns |-> <<>>]
  /\ wire = [c \in Conns |-> <<>>]
  /\ key_queue = <<>>
  /\ loop_ready = <<>>
  /\ f8_down = FALSE
  /\ presses = 0
  /\ ticks = [c \in Conns |-> 0]
  /\ served = [c \in Conns |-> <<>>]
  /\ ref_history = <<>>
  /\ at_last_poll = 0
  /\ releases = 0
  /\ lost = [c \in Conns |-> {}]

\* ------------------------------------------------------------- environment
\* Rekordbox appends a history row: the new row, with the next id and the
\* newest created_at, becomes the latest.
StoreChange ==
  /\ latest < MaxRec
  /\ latest' = latest + 1
  /\ UNCHANGED <<hotkey_mode, db_down, now, _history, cache, conn, pc, state,
                 pending, wire, key_queue, loop_ready, f8_down, presses,
                 ticks, served, ref_history, at_last_poll>>
  /\ UNCHANGED <<releases, lost>>

\* The database becomes unreachable: session.query(...).all() raises.
DbFail ==
  /\ ~db_down
  /\ db_down' = TRUE
  /\ UNCHANGED <<hotkey_mode, latest, now, _history, cache, conn, pc, state,
                 pending, wire, key_queue, loop_ready, f8_down, presses,
                 ticks, served, ref_history, at_last_poll>>
  /\ UNCHANGED <<releases, lost>>

DbRecover ==
  /\ db_down
  /\ db_down' = FALSE
  /\ UNCHANGED <<hotkey_mode, latest, now, _history, cache, conn, pc, state,
                 pending, wire, key_queue, loop_ready, f8_down, presses,
                 ticks, served, ref_history, at_last_poll>>
  /\ UNCHANGED <<releases, lost>>

\* The wall clock enters the next whole second.
Tick ==
  /\ now < MaxTime
  /\ now' = now + 1
  /\ UNCHANGED <<hotkey_mode, latest, db_down, _history, cache, conn, pc,
                 state, pending, wire, key_queue, loop_ready, f8_down,
                 presses, ticks, served, ref_history, at_last_poll>>
  /\ UNCHANGED <<releases, lost>>

\* ------------------------------------------------------ websockets server
\* serve(ws_handler, ...) starts ws_handler for every connection it accepts;
\* main puts no limit on how many are open.  Connections are numbered in the
\* order they are accepted.
accepts(c) == conn[c] = "none" /\ \A d \in 1..(c - 1) : conn[d] # "none"

Connect_interval_handler(c) ==
  /\ accepts(c)
  /\ conn' = [conn EXCEPT ![c] = "open"]
  /\ pc' = [pc EXCEPT ![c] = "ready"]
  /\ ticks' = [ticks EXCEPT ![c] = 1]
  /\ UNCHANGED <<hotkey_mode, state, pending, wire, served>>
  /\ UNCHANGED <<env_vars, poller_vars, key_vars>>
  /\ UNCHANGED <<releases, lost>>

Connect(c) ==
  /\ accepts(c)
  /\ conn' = [conn EXCEPT ![c] = "open"]
  /\ pc' = [pc EXCEPT ![c] = IF hotkey_mode THEN "get" ELSE "ready"]
  /\ ticks' = [ticks EXCEPT ![c] = IF hotkey_mode THEN 0 ELSE 1]
  /\ UNCHANGED <<hotkey_mode, state, pending, wire, served>>
  /\ UNCHANGED <<env_vars, poller_vars, key_vars>>
  /\ UNCHANGED <<releases, lost>>

\* The subscriber closes the connection normally (close code 1000/1001).
PeerClose(c) ==
  /\ conn[c] = "open"
  /\ conn' = [conn EXCEPT ![c] = "closed_ok"]
  /\ UNCHANGED <<hotkey_mode, pc, state, pending, wire, ticks, served>>
  /\ UNCHANGED <<env_vars, poller_vars, key_vars>>
  /\ UNCHANGED <<releases, lost>>

\* The connection breaks without a normal close.
PeerAbort(c) ==
  /\ conn[c] = "open"
  /\ conn' = [conn EXCEPT ![c] = "closed_err"]
  /\ UNCHANGED <<hotkey_mode, pc, state, pending, wire, ticks, served>>
  /\ UNCHANGED <<env_vars, poller_vars, key_vars>>
  /\ UNCHANGED <<releases, lost>>

\* --------------------------------------------------------- hotkey listener
\* keyboard.HotKey([f8], on_activate).press: a press of F8 that is not
\* already held activates; on_activate schedules queue.put_nowait(True) on
\* the event loop.  The scheduled item carries the number of the activation.
hotkey_press_activates_on_repeat ==
  /\ hotkey_mode
  /\ presses < MaxSignals
  /\ f8_down' = TRUE
  /\ presses' = presses + 1
  /\ loop_ready' = Append(loop_ready, presses + 1)
  /\ UNCHANGED <<hotkey_mode, key_queue, conn, pc, state, pending, wire,
                 ticks, served>>
  /\ UNCHANGED <<env_vars, poller_vars>>
  /\ UNCHANGED <<releases, lost>>

hotkey_press ==
  /\ hotkey_mode
  /\ presses < MaxSignals
  /\ IF f8_down
     THEN UNCHANGED <<f8_down, loop_ready, presses>>
     ELSE /\ f8_down' = TRUE
          /\ presses' = presses + 1
          /\ loop_ready' = Append(loop_ready, presses + 1)
  /\ UNCHANGED <<hotkey_mode, key_queue, conn, pc, state, pending, wire,
                 ticks, served>>
  /\ UNCHANGED <<env_vars, poller_vars>>
  /\ UNCHANGED <<releases, lost>>

hotkey_release ==
  /\ hotkey_mode
  /\ f8_down
  /\ f8_down' = FALSE
  /\ UNCHANGED <<hotkey_mode, key_queue, loop_ready, presses, conn, pc, state,
                 pending, wire, ticks, served>>
  /\ UNCHANGED <<env_vars, poller_vars>>
  /\ releases' = releases + 1
  /\ UNCHANGED lost

\* The event loop runs the scheduled queue.put_nowait(True).
put_nowait ==
  /\ loop_ready # <<>>
  /\ key_queue' = Append(key_queue, Head(loop_ready))
  /\ loop_ready' = Tail(loop_ready)
  /\ UNCHANGED <<hotkey_mode, f8_down, presses, conn, pc, state, pending,
                 wire, ticks, served>>
  /\ UNCHANGED <<env_vars, poller_vars>>
  /\ UNCHANGED <<releases, lost>>

\* ------------------------------------------------------------ the handlers
\* Where a handler's loop continues after _send_track_info returns.
after_send_skips_sleep == IF hotkey_mode THEN "get" ELSE "ready"

after_send == IF hotkey_mode THEN "get" ELSE "sleep"

\* _send_track_info up to its await: the cache key is the current second,
\* poll runs (synchronously), and a state that is not None is handed to
\* websocket.send.
_send_track_info(c) ==
  LET q == query(latest, db_down)
      r == poll(_history, cache, now, q)
  IN /\ _history' = r.hist
     /\ cache' = r.cache
     /\ state' = [state EXCEPT ![c] = r.ret]
     /\ pending' = [pending EXCEPT ![c] =
                      IF should_send(r.ret)
                      THEN Append(@, model_dump_json(r.ret)) ELSE @]
     /\ pc' = [pc EXCEPT ![c] = IF should_send(r.ret) THEN "send" ELSE after_send]
     /\ ref_history' = poll_body(ref_history, q).hist
     /\ at_last_poll' = IF db_down THEN at_last_poll ELSE latest

\* wait_for_hotkey is suspended in `await key_queue.get()`.
at_get_or_sending(c) == pc[c] \in {"get", "send"}

at_get(c) == pc[c] = "get"

\* key_queue.get(): the oldest item, and the queue without it.
queue_get_keeps_item(qu) == [item |-> Head(qu), rest |-> qu]

queue_get(qu) == [item |-> Head(qu), rest |-> Tail(qu)]

\* One iteration of wait_for_hotkey's loop: take a key event from the queue
\* and call _send_track_info.
wait_for_hotkey(c) ==
  /\ hotkey_mode
  /\ at_get(c)
  /\ key_queue # <<>>
  /\ key_queue' = queue_get(key_queue).rest
  /\ served' = [served EXCEPT ![c] = Append(@, queue_get(key_queue).item)]
  /\ _send_track_info(c)
  /\ UNCHANGED <<hotkey_mode, conn, wire, loop_ready, f8_down, presses, ticks>>
  /\ UNCHANGED env_vars
  /\ UNCHANGED <<releases, lost>>

\* The number of poll-and-send cycles the interval handlers have run.
RECURSIVE cycles_upto(_)
cycles_upto(c) == IF c = 0 THEN 0 ELSE Len(served[c]) + cycles_upto(c - 1)

\* One iteration of wait_for_interval's loop, up to the send.
wait_for_interval(c) ==
  /\ ~hotkey_mode
  /\ pc[c] = "ready"
  /\ cycles_upto(MaxConns) < MaxSignals
  /\ served' = [served EXCEPT ![c] = Append(@, ticks[c])]
  /\ _send_track_info(c)
  /\ UNCHANGED <<hotkey_mode, conn, wire, ticks>>
  /\ UNCHANGED <<env_vars, key_vars>>
  /\ UNCHANGED <<releases, lost>>

\* asyncio.sleep(interval) returns: the next signal of the interval trigger.
sleep_done(c) ==
  /\ pc[c] = "sleep"
  /\ ticks' = [ticks EXCEPT ![c] = @ + 1]
  /\ pc' = [pc EXCEPT ![c] = "ready"]
  /\ UNCHANGED <<hotkey_mode, conn, state, pending, wire, served>>
  /\ UNCHANGED <<env_vars, poller_vars, key_vars>>
  /\ UNCHANGED <<releases, lost>>

\* websocket.send completes on an open connection.
send_ok(c) ==
  /\ pc[c] = "send"
  /\ conn[c] = "open"
  /\ wire' = [wire EXCEPT ![c] = Append(@, Head(pending[c]))]
  /\ pending' = [pending EXCEPT ![c] = Tail(@)]
  /\ pc' = [pc EXCEPT ![c] = after_send]
  /\ state' = [state EXCEPT ![c] = None]
  /\ UNCHANGED <<hotkey_mode, conn, ticks, served>>
  /\ UNCHANGED <<env_vars, poller_vars, key_vars>>
  /\ UNCHANGED <<releases, lost>>

\* websocket.send raises ConnectionClosedOK, which _send_track_info catches.
send_closed_ok_propagates(c) ==
  /\ pc[c] = "send"
  /\ conn[c] = "closed_ok"
  /\ pending' = [pending EXCEPT ![c] = Tail(@)]
  /\ pc' = [pc EXCEPT ![c] = "done"]
  /\ state' = [state EXCEPT ![c] = None]
  /\ UNCHANGED <<hotkey_mode, conn, wire, ticks, served>>
  /\ UNCHANGED <<env_vars, poller_vars, key_vars>>
  /\ lost' = [lost EXCEPT ![c] = @ \cup {Head(pending[c])}]
  /\ UNCHANGED releases

send_closed_ok(c) ==
  /\ pc[c] = "send"
  /\ conn[c] = "closed_ok"
  /\ pending' = [pending EXCEPT ![c] = Tail(@)]
  /\ pc' = [pc EXCEPT ![c] = after_send]
  /\ state' = [state EXCEPT ![c] = None]
  /\ UNCHANGED <<hotkey_mode, conn, wire, ticks, served>>
  /\ UNCHANGED <<env_vars, poller_vars, key_vars>>
  /\ lost' = [lost EXCEPT ![c] = @ \cup {Head(pending[c])}]
  /\ UNCHANGED releases

\* websocket.send raises anything else: the exception leaves the handler.
send_error(c) ==
  /\ pc[c] = "send"
  /\ conn[c] = "closed_err"
  /\ pending' = [pending EXCEPT ![c] = Tail(@)]
  /\ pc' = [pc EXCEPT ![c] = "done"]
  /\ state' = [state EXCEPT ![c] = None]
  /\ UNCHANGED <<hotkey_mode, conn, wire, ticks, served>>
  /\ UNCHANGED <<env_vars, poller_vars, key_vars>>
  /\ UNCHANGED <<releases, lost>>

Next ==
  \/ StoreChange
  \/ DbFail
  \/ DbRecover
  \/ Tick
  \/ \E c \in Conns : Connect(c)
  \/ \E c \in Conns : PeerClose(c)
  \/ \E c \in Conns : PeerAbort(c)
  \/ hotkey_press
  \/ hotkey_release
  \/ put_nowait
  \/ \E c \in Conns : wait_for_hotkey(c)
  \/ \E c \in Conns : wait_for_interval(c)
  \/ \E c \in Conns : sleep_done(c)
  \/ \E c \in Conns : send_ok(c)
  \/ \E c \in Conns : send_closed_ok(c)
  \/ \E c \in Conns : send_error(c)

Spec == Init /\ [][Next]_vars

\* The asyncio event loop runs every handler that is ready to continue and
\* every scheduled callback, pending sends complete, and the wall clock
\* advances.  Key presses, store changes, database failures and what the
\* subscribers do are not forced.
Fairness ==
  /\ WF_vars(Tick)
  /\ WF_vars(put_nowait)
  /\ \A c \in Conns :
       /\ WF_vars(wait_for_hotkey(c))
       /\ WF_vars(wait_for_interval(c))
       /\ WF_vars(sleep_done(c))
       /\ WF_vars(send_ok(c))
       /\ WF_vars(send_closed_ok(c))
       /\ WF_vars(send_error(c))

FairSpec == Spec /\ Fairness

\* ================================================================== claims
\* Connection c's handler starts a poll-and-send cycle (calls
\* _send_track_info) in this step.
Cycle(c) == wait_for_hotkey(c) \/ wait_for_interval(c)

\* The wire form of a snapshot whose four fields are all absent.
AllNullMessage == <<"null", "null", "null", "null">>

\* C1: idempotence of poll.  When the query succeeds and an earlier poll call
\* has already been made against the store's current latest row, a poll
\* returns None (so the row's snapshot is not sent again), whatever the
\* cache bucket of the call.
C1_Idempotent ==
  [][\A c \in Conns :
       (Cycle(c) /\ ~db_down /\ latest # 0 /\ at_last_poll = latest)
         => state'[c] = None]_vars

\* C2: change detection.  When the query succeeds and the store's latest row
\* differs from the one the previous poll call was made against (or there
\* was none), the poll returns the snapshot built from the latest row,
\* whatever the time between the two calls.
C2_ChangeDetected ==
  [][\A c \in Conns :
       (Cycle(c) /\ ~db_down /\ latest # 0 /\ at_last_poll # latest)
         => state'[c] = SongInfoOf(latest)]_vars

\* C3: memoization transparency.  Every poll call returns what the same
\* sequence of calls on the undecorated poll (fetch, compare with _history,
\* update) returns.
C3_MemoTransparent ==
  [][\A c \in Conns :
       Cycle(c) => state'[c] = poll_body(ref_history, query(latest, db_down)).ret]_vars

\* C4: fault isolation.  When the store query runs and raises during a poll,
\* poll returns a SongInfo (not None) whose artist, title, album and artwork
\* are all None.
C4_FaultIsolation ==
  [][\A c \in Conns :
       (Cycle(c) /\ db_down /\ ~cache_has(cache, now))
         => /\ state'[c] # None
            /\ Len(state'[c]) = 4
            /\ \A i \in 1..4 : state'[c][i] = NoneStr]_vars

\* C4 witness: a handler holds the all-None SongInfo of a poll while the
\* database is down, and is about to send it.
C4_Witness ==
  \E c \in Conns :
    /\ db_down
    /\ pc[c] = "send"
    /\ state[c] = <<NoneStr, NoneStr, NoneStr, NoneStr>>

\* C5 as claimed: a trigger consumed while the store query is failing hands
\* no message to the connection.
C5_NothingSentOnFailure ==
  [][\A c \in Conns : (Cycle(c) /\ db_down) => pending'[c] = <<>>]_vars

\* C5 as amended: when the store query runs and raises during a poll, exactly
\* one message is handed to the connection for that trigger, the snapshot
\* whose four fields are all null; it carries no error detail.
C5_FailureSendsAllNull ==
  [][\A c \in Conns :
       (Cycle(c) /\ db_down /\ ~cache_has(cache, now))
         => pending'[c] = <<AllNullMessage>>]_vars

\* C5 witness: the subscriber has received the all-null message while the
\* database is down.
C5_Witness ==
  \E c \in Conns :
    /\ db_down
    /\ wire[c] # <<>>
    /\ wire[c][Len(wire[c])] = AllNullMessage

\* C6: empty store.  A poll made while the store has no history rows (and the
\* query succeeds) returns None and nothing is handed to the connection.
C6_EmptyStoreAbsent ==
  [][\A c \in Conns :
       (Cycle(c) /\ latest = 0 /\ ~db_down)
         => state'[c] = None /\ pending'[c] = <<>>]_vars

\* C7: poller state is not shared across connections.  A poll that runs the
\* query for an open connection and reports no change (None) although the
\* store has a latest row does so only if that connection has already been
\* sent the snapshot of that row.
C7_NotSharedAcrossConnections ==
  [][\A c \in Conns :
       (/\ Cycle(c)
        /\ ~db_down
        /\ latest # 0
        /\ ~cache_has(cache, now)
        /\ conn[c] = "open"
        /\ state'[c] = None)
         => \E i \in 1..Len(wire[c]) :
              wire[c][i] = model_dump_json(SongInfoOf(latest))]_vars

\* C8: at most one connection handler (broadcast loop) is active at a time.
C8_OneConnectionAtATime ==
  Cardinality({c \in Conns : pc[c] \notin {"none", "done"}}) <= 1

\* C9: trigger fan-in.  On every connection the cycles consumed signals in
\* arrival order, each signal at most once, and no more cycles have run than
\* signals were produced (hotkey activations, or the connection's interval
\* signals); no signal is consumed by two connections.
C9_FanIn ==
  \A c \in Conns :
    /\ \A i, j \in 1..Len(served[c]) : i < j => served[c][i] < served[c][j]
    /\ Len(served[c]) <= (IF hotkey_mode THEN presses ELSE ticks[c])
    /\ \A i \in 1..Len(served[c]) :
         served[c][i] \in 1..(IF hotkey_mode THEN presses ELSE ticks[c])
    /\ hotkey_mode =>
         \A d \in Conns \ {c} :
           \A i \in 1..Len(served[c]) : \A j \in 1..Len(served[d]) :
             served[c][i] # served[d][j]

\* C9 witness: in hotkey mode one connection has run two cycles, for the
\* first and the second activation.
C9_Witness ==
  hotkey_mode /\ \E c \in Conns : served[c] = <<1, 2>>

\* C10: no overlapping cycles on a connection.  A connection has at most one
\* send in flight, only while its handler is suspended in that send, and the
\* message in flight is the result of the handler's latest poll; a completed
\* send delivers exactly that message.
C10_NoOverlap ==
  /\ [](\A c \in Conns :
          /\ Len(pending[c]) <= 1
          /\ (pending[c] # <<>>) <=> (pc[c] = "send")
          /\ pending[c] # <<>> => pending[c] = <<model_dump_json(state[c])>>)
  /\ [][\A c \in Conns :
          send_ok(c) => wire'[c] = Append(wire[c], model_dump_json(state[c]))]_vars

\* C10 witness: a hotkey signal waits in the queue while a connection's send
\* is pending.
C10_Witness ==
  \E c \in Conns : pc[c] = "send" /\ Len(pending[c]) = 1 /\ key_queue # <<>>

\* C11: a send failure ends a connection's loop if and only if it is not a
\* graceful peer close.  A send that raises ConnectionClosedOK is swallowed
\* (nothing reaches the subscriber) and the loop goes on to wait for the next
\* trigger; any other send failure ends the handler; and a handler ends in
\* no other way.
C11_SendFailure ==
  [][\A c \in Conns :
       /\ (pc[c] = "send" /\ pc'[c] # "send" /\ conn[c] = "closed_ok")
            => pc'[c] = after_send /\ wire'[c] = wire[c]
       /\ (pc[c] = "send" /\ pc'[c] # "send" /\ conn[c] = "closed_err")
            => pc'[c] = "done"
       /\ (pc[c] # "done" /\ pc'[c] = "done")
            => pc[c] = "send" /\ conn[c] = "closed_err"]_vars

\* C11 witness: a send on a gracefully closed connection was swallowed and
\* the handler is waiting for its next trigger.
C11_Witness ==
  \E c \in Conns :
    conn[c] = "closed_ok" /\ lost[c] # {} /\ pc[c] = after_send

\* C12: terminal state on peer close.  Once the peer has closed a
\* connection (normally), the connection's handler eventually ends, and so
\* runs no further poll-and-send cycle.
C12_ClosedTerminates ==
  \A c \in Conns : (conn[c] = "closed_ok") ~> (pc[c] = "done")

\* C13: pending trigger signals are not buffered without bound.  The signals
\* waiting in the queue stay below the number of signals the listener can
\* produce, MaxSignals: the buffer does not grow with the number of key
\* presses.
C13_PendingBounded ==
  Len(key_queue) < MaxSignals

\* C14: hotkey hand-off.  In hotkey mode every press/release pairing of F8
\* has produced exactly one activation (a held key adds none), every
\* activation is exactly one signal that is scheduled, queued or consumed,
\* and neither the listener's hand-off nor the queue's put ever has to wait,
\* whatever the handlers are doing.
C14_HotkeyHandOff ==
  hotkey_mode =>
    /\ presses = releases + (IF f8_down THEN 1 ELSE 0)
    /\ Len(loop_ready) + Len(key_queue) + cycles_upto(MaxConns) = presses
    /\ presses < MaxSignals => ENABLED hotkey_press
    /\ loop_ready # <<>> => ENABLED put_nowait

\* C14 witness: two completed pairings have put two signals on the queue
\* while a handler is suspended in a send.
C14_Witness ==
  /\ releases = 2
  /\ presses = 2
  /\ \E c \in Conns : pc[c] = "send" /\ Len(key_queue) + Len(served[c]) = 2

\* C15: exactly one trigger source drives polling in a process run.  In
\* hotkey mode no handler is ever in the interval loop and every poll
\* consumes one key signal from the queue; in interval mode no listener
\* exists (no key event, nothing scheduled or queued), no handler waits on
\* the queue, and every poll is started by the interval loop.
C15_OneTriggerSource ==
  /\ [](IF hotkey_mode
        THEN \A c \in Conns : pc[c] \notin {"ready", "sleep"} /\ ticks[c] = 0
        ELSE /\ presses = 0 /\ releases = 0 /\ ~f8_down
             /\ loop_ready = <<>> /\ key_queue = <<>>
             /\ \A c \in Conns : pc[c] # "get")
  /\ [][\A c \in Conns :
          served'[c] # served[c] =>
            IF hotkey_mode
            THEN /\ pc[c] = "get"
                 /\ key_queue # <<>>
                 /\ key_queue' = Tail(key_queue)
                 /\ served'[c] = Append(served[c], Head(key_queue))
            ELSE /\ pc[c] = "ready"
                 /\ served'[c] = Append(served[c], ticks[c])]_vars

\* C15 witness: hotkey mode, wall-clock time has advanced and a handler has
\* polled twice, both times on a key signal.
C15_Witness ==
  /\ hotkey_mode
  /\ now > 0
  /\ \E c \in Conns : Len(served[c]) = 2 /\ ticks[c] = 0

C17_HistoryFrame ==
  /\ _history = None
  /\ [][_history' # _history =>
          /\ \E c \in Conns : Cycle(c)
          /\ ~cache_has(cache, now)
          /\ ~db_down
          /\ latest # 0
          /\ _history # <<latest>>
          /\ _history' = <<latest>>
          /\ _history' # None]_vars

\* C17 witness: a record has been seen, and a later poll that hit a query
\* failure has returned the all-default SongInfo and left _history in place.
C17_Witness ==
  /\ _history # None
  /\ db_down
  /\ \E c \in Conns : state[c] = SongInfoDefault

\* C18: _history is updated inside poll, before the send.  Once the send of
\* record R's snapshot has failed with a graceful close and been swallowed,
\* R stays marked as seen: every later poll made while the store is
\* reachable and its latest record is still R returns None, so R's snapshot
\* is never sent again.
C18_LostSnapshotNeverResent ==
  [][\A c, d \in Conns :
       ( /\ Cycle(c)
         /\ ~db_down
         /\ latest # 0
         /\ _history = <<latest>>
         /\ model_dump_json(SongInfoOf(latest)) \in lost[d] )
       => state'[c] = None /\ pending'[c] = pending[c]]_vars

\* C19: recovery after a query failure.  Record R was sent on a connection,
\* a later poll failed and the all-null snapshot was the last message sent
\* on it, and the store is reachable again with R still the latest record:
\* every following poll returns None and sends nothing, so the last message
\* on the connection stays the all-null snapshot.
C19_RecoveryStaysAbsent ==
  [][\A c \in Conns :
       ( /\ Cycle(c)
         /\ ~db_down
         /\ latest # 0
         /\ _history = <<latest>>
         /\ wire[c] # <<>>
         /\ wire[c][Len(wire[c])] = AllNullMessage
         /\ \E i \in 1..Len(wire[c]) :
              wire[c][i] = model_dump_json(SongInfoOf(latest)) )
       => state'[c] = None /\ pending'[c] = pending[c]]_vars

\* The program started without --hotkey-mode: main takes the else branch, no
\* keyboard listener exists and every handler is wait_for_interval.  Fairness:
\* the event loop keeps scheduling each handler's next cycle and each
\* websocket.send completes or raises.
IntervalInit == Init /\ ~hotkey_mode

IntervalNext ==
  \/ StoreChange
  \/ DbFail
  \/ DbRecover
  \/ Tick
  \/ \E c \in Conns : Connect(c)
  \/ \E c \in Conns : PeerClose(c)
  \/ \E c \in Conns : PeerAbort(c)
  \/ \E c \in Conns : wait_for_interval(c)
  \/ \E c \in Conns : sleep_done(c)
  \/ \E c \in Conns : send_ok(c)
  \/ \E c \in Conns : send_closed_ok(c)
  \/ \E c \in Conns : send_error(c)

IntervalFairness ==
  \A c \in Conns :
    /\ WF_vars(wait_for_interval(c))
    /\ WF_vars(send_ok(c))
    /\ WF_vars(send_closed_ok(c))

IntervalFairSpec == IntervalInit /\ [][IntervalNext]_vars /\ IntervalFairness

\* C20: eventual delivery in interval mode.  Connection c is the one open
\* connection, its handler is about to poll, the store is reachable, its
\* latest record R has not been seen yet and the wall clock is past every
\* cached second.  Then R's snapshot is eventually sent on c, unless one of
\* the claim's assumptions stops holding: the store fails or moves past R,
\* c is closed, another connection is open, or a send fails.
C20_Assumed(c, R) ==
  /\ ~hotkey_mode
  /\ conn[c] = "open"
  /\ \A d \in Conns : d # c => conn[d] # "open"
  /\ \A d \in Conns : conn[d] # "closed_err" /\ lost[d] = {}
  /\ ~db_down
  /\ latest = R

C20_Delivered(c, R) ==
  \E i \in 1..Len(wire[c]) : wire[c][i] = model_dump_json(SongInfoOf(R))

C20_EventualDelivery ==
  \A c \in Conns : \A R \in 1..MaxRec :
    ( /\ C20_Assumed(c, R)
      /\ pc[c] = "ready"
      /\ cycles_upto(MaxConns) < MaxSignals
      /\ _history # <<R>>
      /\ ~cache_has(cache, now) )
    ~> (C20_Delivered(c, R) \/ ~C20_Assumed(c, R))

\* C20 witness: interval mode, one connection; it was sent the previous
\* record, the latest record then changed to R, and R's snapshot has been
\* sent on it with every assumption still holding.
C20_Witness ==
  /\ C20_Assumed(1, MaxRec)
  /\ Len(wire[1]) = 2
  /\ wire[1][1] = model_dump_json(SongInfoOf(MaxRec - 1))
  /\ wire[1][2] = model_dump_json(SongInfoOf(MaxRec))

====
